---------------------------- MODULE Spec2Model ----------------------------
(***************************************************************************)
(* A model of src/app.py (DataProcessorApp): the upload handler, the       *)
(* processing handler and the three engine functions the class defines     *)
(* (detect_data_category, assign_unique_identifiers,                       *)
(* prevent_duplicate_entries).                                             *)
(*                                                                         *)
(* Reading of the source.                                                  *)
(*  - Lines 208-216 (the body of prevent_duplicate_entries) are indented   *)
(*    one level too little in the file; they are read as the body of the   *)
(*    method whose docstring and table precede them.                       *)
(*  - process_data names a module global, unique_identifiers, at line 150  *)
(*    and reads it at line 151.  app.py never binds that name and does not *)
(*    import it, so line 151 raises NameError, which the handler's own     *)
(*    except clause (165-167) catches: save_json_data (157) is never       *)
(*    reached.  The model follows the code here.                           *)
(*  - load_json_data, detect_and_categorize and prevent_duplicates come    *)
(*    from a module utils that is not part of the source at hand; they are *)
(*    modelled from the specification, within what their call sites at     *)
(*    lines 124, 140 and 141 pass to them.  detect_and_categorize is not   *)
(*    handed the loaded document, so the identifier table it assigns from  *)
(*    is the process-wide one of utils (the variable unique_identifiers    *)
(*    below, empty when the process starts); it is not the unbound global  *)
(*    of the same name that line 151 of app.py reads.                      *)
(*  - process_data is a coroutine without any await expression and         *)
(*    handle_upload is a plain function: on the event loop each handler    *)
(*    runs to its end before another one starts.                           *)
(***************************************************************************)
EXTENDS Integers, Sequences, FiniteSets, TLC

(***************************************************************************)
(* Bounds of the model.                                                    *)
(***************************************************************************)
\* longest uploaded table, in rows
MaxRows == 2
\* number of processing tasks (clicks on "Process Data") that may coexist
NumRuns == 2
\* longest batch handed to assign_unique_identifiers / prevent_duplicate_entries
MaxBatch == 2

\* Python's None
NoneVal == "<None>"

(***************************************************************************)
(* Category Schema Registry: the literal tables of the source.             *)
(***************************************************************************)
\* the keys of `categories`, in insertion order (dicts iterate in that order)
CategoryOrder ==
    <<"Messenger", "SMS", "Calls", "Keylog", "Contacts", "Installed Apps">>

CategoryNames == {CategoryOrder[i] : i \in 1..Len(CategoryOrder)}

\* categories[category], as a set (only membership is tested, line 106)
required_columns(category) ==
    CASE category = "Messenger" -> {"Time", "Sender", "Text"}
      [] category = "SMS" -> {"SMS Type", "Time", "From/To", "Text", "Location"}
      [] category = "Calls" ->
            {"Call Type", "Time", "From/To", "Duration", "Location"}
      [] category = "Keylog" -> {"Application", "Time", "Text"}
      [] category = "Contacts" ->
            {"Name", "Phone Number", "Email Id", "Last Contacted"}
      [] category = "Installed Apps" ->
            {"Application Name", "Package Name", "Installed Date"}

\* unique_fields[category], an ordered list
unique_fields(category) ==
    CASE category = "Messenger" -> <<"Time", "Sender", "Text">>
      [] category = "SMS" -> <<"Time", "From/To", "Text">>
      [] category = "Calls" -> <<"Time", "From/To", "Duration">>
      [] category = "Keylog" -> <<"Application", "Time", "Text">>
      [] category = "Contacts" -> <<"Name", "Phone Number">>
      [] category = "Installed Apps" -> <<"Application Name", "Package Name">>

\* a plausible slip: an application column taken for the two categories
\* that have no identity field
SenderFieldForAll(category) ==
    CASE category = "Messenger" -> "Sender"
      [] category \in {"SMS", "Calls"} -> "From/To"
      [] category = "Contacts" -> "Name"
      [] category = "Keylog" -> "Application"
      [] OTHER -> "Application Name"

\* the field whose value gets an identifier (lines 179-185); NoneVal: none
sender_field(category) ==
    CASE category = "Messenger" -> "Sender"
      [] category \in {"SMS", "Calls"} -> "From/To"
      [] category = "Contacts" -> "Name"
      [] OTHER -> NoneVal

AllColumns == UNION {required_columns(c) : c \in CategoryNames}

(***************************************************************************)
(* detect_data_category (lines 95-109): the first category, in dict order, *)
(* all of whose required columns are among `columns`; None otherwise.      *)
(***************************************************************************)
RECURSIVE DetectFrom(_, _)
DetectFrom(i, columns) ==
    IF i > Len(CategoryOrder) THEN NoneVal
    ELSE IF \A col \in required_columns(CategoryOrder[i]) : col \in columns
         THEN CategoryOrder[i]
         ELSE DetectFrom(i + 1, columns)

\* a plausible slip: `any` for `all` at line 106
DetectAny(columns) ==
    LET hit == {i \in 1..Len(CategoryOrder) :
                  \E col \in required_columns(CategoryOrder[i]) : col \in columns}
    IN  IF hit = {} THEN NoneVal
        ELSE CategoryOrder[CHOOSE i \in hit : \A j \in hit : i <= j]

detect_data_category(columns) == DetectFrom(1, columns)


(***************************************************************************)
(* Identifier strings.  "ID_007" is kept as its prefix and the digits of   *)
(* its suffix, so that formatting (f"ID_{n:03d}", line 188) and reading    *)
(* back (int(id.split("_")[1]), line 176) are two different conversions.   *)
(***************************************************************************)
RECURSIVE Digits(_)
\* the decimal digits of n >= 0, most significant first ("0" for 0)
Digits(n) == IF n < 10 THEN <<n>> ELSE Append(Digits(n \div 10), n % 10)

RECURSIVE ZeroPadCut(_, _)
\* a plausible slip: the suffix held to `width` digits, the leading ones cut
ZeroPadCut(ds, width) ==
    IF Len(ds) > width THEN SubSeq(ds, Len(ds) - width + 1, Len(ds))
    ELSE IF Len(ds) = width THEN ds
    ELSE ZeroPadCut(<<0>> \o ds, width)

RECURSIVE ZeroPad(_, _)
\* the format spec 03d: pad on the left with zeros up to `width`, never cut
ZeroPad(ds, width) == IF Len(ds) >= width THEN ds ELSE ZeroPad(<<0>> \o ds, width)

\* f"ID_{n:03d}"
FormatId(n) == [prefix |-> "ID_", digits |-> ZeroPad(Digits(n), 3)]

RECURSIVE DigitsToInt(_)
\* int("007") = 7
DigitsToInt(ds) ==
    IF ds = <<>> THEN 0
    ELSE 10 * DigitsToInt(SubSeq(ds, 1, Len(ds) - 1)) + ds[Len(ds)]

\* int(id.split("_")[1])
IdNumber(id) == DigitsToInt(id.digits)

SetMax(S) == CHOOSE x \in S : \A y \in S : y <= x

\* a plausible slip: counting the entries instead of taking the maximum
NextIdByCount(existing_identifiers) ==
    Cardinality(DOMAIN existing_identifiers)

\* line 176: max(...) + 1 if existing_identifiers else 1
InitialNextId(existing_identifiers) ==
    IF DOMAIN existing_identifiers = {} THEN 1
    ELSE SetMax({IdNumber(existing_identifiers[k]) :
                    k \in DOMAIN existing_identifiers}) + 1

\* entry[key] = value on a dict
SetItem(d, key, value) ==
    [k \in DOMAIN d \cup {key} |-> IF k = key THEN value ELSE d[k]]

EmptyDict == [k \in {} |-> NoneVal]

\* the argument None of line 174, kept apart from every dict
NoneDict == [k \in {NoneVal} |-> NoneVal]

(***************************************************************************)
(* assign_unique_identifiers (lines 169-192).                              *)
(* AssignEntry is one iteration of the loop at 178-190 on the loop state   *)
(* (the table, next_id); `raised` is the KeyError of entry[sender_field].  *)
(***************************************************************************)
\* a plausible slip: minting for every entry, known sender or not
AssignEntryAlwaysMint(entry, category, existing_identifiers, next_id) ==
    IF sender_field(category) = NoneVal
    THEN [entry |-> entry, identifiers |-> existing_identifiers,
          next_id |-> next_id, raised |-> FALSE, minted |-> FALSE]
    ELSE IF sender_field(category) \notin DOMAIN entry
    THEN [entry |-> entry, identifiers |-> existing_identifiers,
          next_id |-> next_id, raised |-> TRUE, minted |-> FALSE]
    ELSE LET sender == entry[sender_field(category)]
             table == SetItem(existing_identifiers, sender, FormatId(next_id))
         IN  [entry |-> SetItem(entry, "identifier", table[sender]),
              identifiers |-> table, next_id |-> next_id + 1,
              raised |-> FALSE, minted |-> TRUE]

\* a plausible slip: line 189 left out, so next_id never advances
AssignEntryNoIncrement(entry, category, existing_identifiers, next_id) ==
    IF sender_field(category) = NoneVal
    THEN [entry |-> entry, identifiers |-> existing_identifiers,
          next_id |-> next_id, raised |-> FALSE, minted |-> FALSE]
    ELSE IF sender_field(category) \notin DOMAIN entry
    THEN [entry |-> entry, identifiers |-> existing_identifiers,
          next_id |-> next_id, raised |-> TRUE, minted |-> FALSE]
    ELSE LET sender == entry[sender_field(category)]
             isNew == sender \notin DOMAIN existing_identifiers
             table == IF isNew
                      THEN SetItem(existing_identifiers, sender, FormatId(next_id))
                      ELSE existing_identifiers
         IN  [entry |-> SetItem(entry, "identifier", table[sender]),
              identifiers |-> table, next_id |-> next_id,
              raised |-> FALSE, minted |-> isNew]

\* a plausible slip: Contacts numbered apart, a name minted anew whatever
\* the other categories have put in the table
AssignEntryContactsApart(entry, category, existing_identifiers, next_id) ==
    IF sender_field(category) = NoneVal
    THEN [entry |-> entry, identifiers |-> existing_identifiers,
          next_id |-> next_id, raised |-> FALSE, minted |-> FALSE]
    ELSE IF sender_field(category) \notin DOMAIN entry
    THEN [entry |-> entry, identifiers |-> existing_identifiers,
          next_id |-> next_id, raised |-> TRUE, minted |-> FALSE]
    ELSE LET sender == entry[sender_field(category)]
             isNew == \/ sender \notin DOMAIN existing_identifiers
                      \/ category = "Contacts"
             table == IF isNew
                      THEN SetItem(existing_identifiers, sender, FormatId(next_id))
                      ELSE existing_identifiers
         IN  [entry |-> SetItem(entry, "identifier", table[sender]),
              identifiers |-> table,
              next_id |-> IF isNew THEN next_id + 1 ELSE next_id,
              raised |-> FALSE, minted |-> isNew]

AssignEntry(entry, category, existing_identifiers, next_id) ==
    IF sender_field(category) = NoneVal
    THEN \* line 185: continue
         [entry |-> entry, identifiers |-> existing_identifiers,
          next_id |-> next_id, raised |-> FALSE, minted |-> FALSE]
    ELSE IF sender_field(category) \notin DOMAIN entry
    THEN \* lines 181, 183: KeyError
         [entry |-> entry, identifiers |-> existing_identifiers,
          next_id |-> next_id, raised |-> TRUE, minted |-> FALSE]
    ELSE LET sender == entry[sender_field(category)]
             isNew == sender \notin DOMAIN existing_identifiers
             table == IF isNew
                      THEN SetItem(existing_identifiers, sender, FormatId(next_id))
                      ELSE existing_identifiers
         IN  [entry |-> SetItem(entry, "identifier", table[sender]),
              identifiers |-> table,
              next_id |-> IF isNew THEN next_id + 1 ELSE next_id,
              raised |-> FALSE, minted |-> isNew]

RECURSIVE AssignLoop(_, _, _, _, _)
\* the for loop from entry i on; `done` are the entries already processed
AssignLoop(processed_data, category, existing_identifiers, next_id, i) ==
    IF i > Len(processed_data)
    THEN [data |-> processed_data, identifiers |-> existing_identifiers,
          raised |-> FALSE]
    ELSE LET r == AssignEntry(processed_data[i], category,
                              existing_identifiers, next_id)
         IN  IF r.raised
             THEN [data |-> processed_data, identifiers |-> r.identifiers,
                   raised |-> TRUE]
             ELSE AssignLoop([processed_data EXCEPT ![i] = r.entry], category,
                             r.identifiers, r.next_id, i + 1)

\* the whole call; the entries and the table are changed in place
assign_unique_identifiers(processed_data, category, existing_identifiers) ==
    LET table == IF existing_identifiers = NoneDict THEN EmptyDict
                 ELSE existing_identifiers
    IN  AssignLoop(processed_data, category, table, InitialNextId(table), 1)

(***************************************************************************)
(* prevent_duplicate_entries (lines 194-216): `seen` starts empty at every *)
(* call; the first entry of each key tuple is kept, in input order.        *)
(***************************************************************************)
\* tuple(entry[field] for field in unique_fields[category])
KeyOf(entry, category) ==
    [j \in 1..Len(unique_fields(category)) |-> entry[unique_fields(category)[j]]]

HasKeyFields(entry, category) ==
    \A j \in 1..Len(unique_fields(category)) :
        unique_fields(category)[j] \in DOMAIN entry

RECURSIVE FilterLoopSkipping(_, _, _, _, _)
\* a plausible slip: an entry without a key field passed over, not raised
FilterLoopSkipping(processed_data, category, seen, unique_data, i) ==
    IF i > Len(processed_data) THEN [data |-> unique_data, raised |-> FALSE]
    ELSE IF ~HasKeyFields(processed_data[i], category)
    THEN FilterLoopSkipping(processed_data, category, seen, unique_data, i + 1)
    ELSE LET key == KeyOf(processed_data[i], category)
         IN  IF key \notin seen
             THEN FilterLoopSkipping(processed_data, category, seen \cup {key},
                                     Append(unique_data, processed_data[i]),
                                     i + 1)
             ELSE FilterLoopSkipping(processed_data, category, seen,
                                     unique_data, i + 1)

RECURSIVE FilterLoop(_, _, _, _, _)
FilterLoop(processed_data, category, seen, unique_data, i) ==
    IF i > Len(processed_data) THEN [data |-> unique_data, raised |-> FALSE]
    ELSE IF ~HasKeyFields(processed_data[i], category)
    THEN [data |-> unique_data, raised |-> TRUE]
    ELSE LET key == KeyOf(processed_data[i], category)
         IN  IF key \notin seen
             THEN FilterLoop(processed_data, category, seen \cup {key},
                             Append(unique_data, processed_data[i]), i + 1)
             ELSE FilterLoop(processed_data, category, seen, unique_data, i + 1)

\* a plausible slip: the kept entries pushed to the front of the result
FilterReversed(processed_data, category) ==
    LET r == FilterLoop(processed_data, category, {}, <<>>, 1)
    IN  [data |-> [j \in 1..Len(r.data) |-> r.data[Len(r.data) + 1 - j]],
         raised |-> r.raised]

prevent_duplicate_entries(processed_data, category) ==
    FilterLoop(processed_data, category, {}, <<>>, 1)

(***************************************************************************)
(* Timestamp standardisation (lines 131-137).  dateutil's parse is a       *)
(* library; it is modelled on the raw strings the tables of the model use: *)
(* two spellings of one instant, and a string that is no date.             *)
(***************************************************************************)
RawTimes == {"2024-01-01 10:00", "01/01/2024 10:00", "n/a"}

\* parse(raw).strftime('%Y-%m-%dT%H:%M:%S'); ValueError gives None (line 137)
StandardTime(raw) ==
    CASE raw = "2024-01-01 10:00" -> "2024-01-01T10:00:00"
      [] raw = "01/01/2024 10:00" -> "2024-01-01T10:00:00"
      [] raw = "2024-01-01T10:00:00" -> "2024-01-01T10:00:00"
      [] OTHER -> NoneVal

TimeFields == {"Time", "Last Contacted", "Installed Date"}

\* the loop body of lines 132-137 on one row
StandardizeRow(row) ==
    [k \in DOMAIN row |-> IF k \in TimeFields THEN StandardTime(row[k]) ELSE row[k]]

StandardizeRows(rows) == [j \in 1..Len(rows) |-> StandardizeRow(rows[j])]

(***************************************************************************)
(* The tables an upload may carry.                                         *)
(***************************************************************************)
MessengerRows ==
    {[Time |-> "2024-01-01 10:00", Sender |-> "Alice", Text |-> "hi"],
     [Time |-> "01/01/2024 10:00", Sender |-> "Alice", Text |-> "hi"],
     [Time |-> "n/a", Sender |-> "Alice", Text |-> "hi"],
     [Time |-> "2024-01-01 10:00", Sender |-> "Bob", Text |-> "hi"]}

ContactsRows ==
    {("Name" :> "Alice") @@ ("Phone Number" :> ph) @@ ("Email Id" :> "a@x")
        @@ ("Last Contacted" :> "2024-01-01 10:00") : ph \in {"555", "777"}}

KeylogRows ==
    {[Application |-> "chat", Time |-> "2024-01-01 10:00", Text |-> "hi"]}

SeqsUpTo(S, n) == UNION {[1..m -> S] : m \in 0..n}

TablesOver(columns, rows, n) ==
    {[kind |-> "table", columns |-> columns, rows |-> rs] : rs \in SeqsUpTo(rows, n)}

UnrecognizedTable ==
    [kind |-> "table", columns |-> {"Foo"}, rows |-> <<[Foo |-> "x"]>>]

Tables ==
    TablesOver({"Time", "Sender", "Text"}, MessengerRows, MaxRows)
    \cup TablesOver({"Name", "Phone Number", "Email Id", "Last Contacted"},
                    ContactsRows, MaxRows)
    \cup TablesOver({"Application", "Time", "Text"}, KeylogRows, MaxRows)
    \cup {UnrecognizedTable}

\* an upload without content (line 52), and bytes pandas cannot read (line 91)
NoContent == [kind |-> "none"]
Garbage == [kind |-> "garbage"]
NoFile == [kind |-> "absent"]

\* under a name that is no .csv the content is never looked at (line 59)
UploadEvents ==
    {[name |-> "export.csv", content |-> c] :
        c \in Tables \cup {NoContent, Garbage}}
    \cup {[name |-> "notes.txt", content |-> UnrecognizedTable]}

\* filename.endswith('.csv'), on the names of the model
EndsWithCsv(name) == name = "export.csv"

(***************************************************************************)
(* The persisted document (data.json): a dict from category names to       *)
(* record lists, with an "identifiers" entry.                              *)
(***************************************************************************)
\* existing_data.get('identifiers', {})  (line 153)
IdentifiersOf(store) ==
    IF "identifiers" \in DOMAIN store THEN store["identifiers"] ELSE EmptyDict

\* existing_data.get(category, [])
EntriesOf(store, category) ==
    IF category \in DOMAIN store THEN store[category] ELSE <<>>

\* a plausible slip: new entries put in front of the stored ones
MergePrepend(existing_data, final_data) ==
    [k \in DOMAIN existing_data \cup DOMAIN final_data |->
        IF k \in DOMAIN final_data
        THEN final_data[k] \o EntriesOf(existing_data, k)
        ELSE existing_data[k]]

\* a plausible slip: the document rebuilt from the categories of the batch
MergeBatchCategories(existing_data, final_data) ==
    [k \in DOMAIN final_data |-> EntriesOf(existing_data, k) \o final_data[k]]

\* lines 144-147
MergeInto(existing_data, final_data) ==
    [k \in DOMAIN existing_data \cup DOMAIN final_data |->
        IF k \in DOMAIN final_data
        THEN EntriesOf(existing_data, k) \o final_data[k]
        ELSE existing_data[k]]

(***************************************************************************)
(* The functions of utils that process_data calls.  utils is not among the *)
(* sources; each is modelled from the specification (sections 4.2-4.5),    *)
(* with the arguments its call site passes and no others.                  *)
(***************************************************************************)
EmptyStore == EmptyDict

\* load_json_data(JSON_DB_PATH), line 124: the document on disk
load_json_data(document) == document

\* detect_and_categorize(csv_data), line 140: detection on the rows' columns,
\* then identifier assignment against the process-wide identifier table
detect_and_categorize(csv_data, identifiers) ==
    IF csv_data = <<>>
    THEN [data |-> EmptyDict, identifiers |-> identifiers, raised |-> FALSE]
    ELSE LET category == detect_data_category(DOMAIN csv_data[1])
         IN  IF category = NoneVal
             THEN [data |-> EmptyDict, identifiers |-> identifiers,
                   raised |-> FALSE]
             ELSE LET a == assign_unique_identifiers(csv_data, category,
                                                     identifiers)
                  IN  [data |-> (category :> a.data),
                       identifiers |-> a.identifiers, raised |-> a.raised]

\* prevent_duplicates(categorized_data), line 141: the filter, per category,
\* on the batch it is given
prevent_duplicates(categorized_data) ==
    [data |-> [c \in DOMAIN categorized_data |->
                  prevent_duplicate_entries(categorized_data[c], c).data],
     raised |-> \E c \in DOMAIN categorized_data :
                  prevent_duplicate_entries(categorized_data[c], c).raised]

(***************************************************************************)
(* The documents data.json may hold when the process starts: none, or what *)
(* an earlier ingestion of one table left (its filtered records with their *)
(* identifiers, and the identifier table).                                 *)
(***************************************************************************)
StoreFrom(table) ==
    LET category == detect_data_category(table.columns)
        a == assign_unique_identifiers(StandardizeRows(table.rows), category,
                                       EmptyDict)
    IN  (category :> prevent_duplicate_entries(a.data, category).data)
        @@ ("identifiers" :> a.identifiers)

SeedTables ==
    {[kind |-> "table", columns |-> {"Time", "Sender", "Text"},
      rows |-> <<[Time |-> "2024-01-01 10:00", Sender |-> "Alice", Text |-> "hi"]>>],
     [kind |-> "table", columns |-> {"Time", "Sender", "Text"},
      rows |-> <<[Time |-> "2024-01-01 10:00", Sender |-> "Bob", Text |-> "hi"],
                 [Time |-> "n/a", Sender |-> "Alice", Text |-> "hi"]>>],
     [kind |-> "table",
      columns |-> {"Name", "Phone Number", "Email Id", "Last Contacted"},
      rows |-> <<("Name" :> "Alice") @@ ("Phone Number" :> "555")
                 @@ ("Email Id" :> "a@x")
                 @@ ("Last Contacted" :> "2024-01-01 10:00")>>]}

InitStores == {EmptyStore} \cup {StoreFrom(t) : t \in SeedTables}

(***************************************************************************)
(* State.                                                                  *)
(***************************************************************************)
VARIABLES
    db,                 \* the document in data.json
    disk,               \* the content of the uploaded file at file_path
    file_path,          \* self.file_path
    data_category,      \* self.data_category
    unique_identifiers, \* the process-wide identifier table (of utils)
    pc,                 \* per processing task: where process_data stands
    locals,             \* per processing task: its local variables
    last_dialog,        \* the text of the dialog shown last
    progress_bar,       \* self.progress_bar, in hundredths
    status_label,       \* self.status_label.text
    call,               \* a call of an engine function in progress
    ret                 \* what the last such call returned

appVars ==
    <<db, disk, file_path, data_category, pc, locals, last_dialog, progress_bar,
      status_label>>

vars ==
    <<db, disk, file_path, data_category, unique_identifiers, pc, locals,
      last_dialog, progress_bar, status_label, call, ret>>

Runs == 1..NumRuns

NoLocals ==
    [existing_data |-> EmptyDict, csv_data |-> <<>>,
     categorized_data |-> EmptyDict, final_data |-> EmptyDict]

NoCall == [fn |-> "none"]
NoRet == [fn |-> "none"]

\* the dialog texts (lines 53, 60, 88, 92, 113, 116, 164, 166)
DialogNone == "none"
DialogNoFile == "No file uploaded."
DialogNotCsv == "Please select a valid CSV file."
DialogUndetected == "Unable to automatically detect the data category."
DialogReadError == "Error reading CSV file"
DialogNoCategory == "Data category not detected or selected."
DialogSuccess == "Data processed and saved successfully!"
DialogErrorRead == "An error occurred during processing: read_csv"
DialogErrorKey == "An error occurred during processing: KeyError"
DialogErrorName ==
    "An error occurred during processing: name 'unique_identifiers' is not defined"

\* the texts of the status label (lines 32, 73, 85, 226)
LabelNoFile == <<"No file uploaded">>
LabelUploaded(filename, category) ==
    <<"File uploaded: ", filename, " (Detected category: ", category, ")">>

InitApp ==
    /\ db \in InitStores
    /\ disk = NoFile
    /\ file_path = NoneVal
    /\ data_category = NoneVal
    /\ pc = [r \in Runs |-> "idle"]
    /\ locals = [r \in Runs |-> NoLocals]
    /\ last_dialog = DialogNone
    /\ progress_bar = 0
    /\ status_label = LabelNoFile

Init ==
    /\ InitApp
    /\ unique_identifiers = EmptyDict
    /\ call = NoCall
    /\ ret = NoRet

(***************************************************************************)
(* The event loop.  Neither handler contains an await (the one at line 121 *)
(* is commented out), so a handler that has started runs to its end before *)
(* any other handler runs.                                                 *)
(***************************************************************************)
\* a plausible change: a handler that yields between its steps
LoopFreeYielding(r) == TRUE

\* task r may take a step: no other processing task is inside its handler
LoopFree(r) == \A q \in Runs \ {r} : pc[q] = "idle"

(***************************************************************************)
(* handle_upload (lines 51-93), with the reset_ui it ends in (224-229;     *)
(* reset_ui touches widgets only, and the progress bar).                   *)
(***************************************************************************)
\* a plausible slip: the category kept when detection finds none
UploadResultKeepCategory(e, old_path, old_category, old_disk) ==
    IF e.content = NoContent
    THEN [file_path |-> old_path, data_category |-> old_category,
          disk |-> old_disk, dialog |-> DialogNoFile, reset |-> TRUE]
    ELSE IF ~EndsWithCsv(e.name)
    THEN [file_path |-> old_path, data_category |-> old_category,
          disk |-> old_disk, dialog |-> DialogNotCsv, reset |-> TRUE]
    ELSE IF e.content = Garbage
    THEN [file_path |-> e.name, data_category |-> old_category,
          disk |-> e.content, dialog |-> DialogReadError, reset |-> TRUE]
    ELSE IF detect_data_category(e.content.columns) = NoneVal
    THEN [file_path |-> e.name, data_category |-> old_category,
          disk |-> e.content, dialog |-> DialogUndetected, reset |-> TRUE]
    ELSE [file_path |-> e.name,
          data_category |-> detect_data_category(e.content.columns),
          disk |-> e.content, dialog |-> DialogNone, reset |-> FALSE]

UploadResult(e, old_path, old_category, old_disk) ==
    IF e.content = NoContent
    THEN \* lines 52-55
         [file_path |-> old_path, data_category |-> old_category,
          disk |-> old_disk, dialog |-> DialogNoFile, reset |-> TRUE]
    ELSE IF ~EndsWithCsv(e.name)
    THEN \* lines 59-62
         [file_path |-> old_path, data_category |-> old_category,
          disk |-> old_disk, dialog |-> DialogNotCsv, reset |-> TRUE]
    ELSE IF e.content = Garbage
    THEN \* lines 64-71 write the file, 76 raises, 91-93
         [file_path |-> e.name, data_category |-> old_category,
          disk |-> e.content, dialog |-> DialogReadError, reset |-> TRUE]
    ELSE LET detected == detect_data_category(e.content.columns)
         IN  \* lines 83-89: the attribute is assigned before it is tested
             [file_path |-> e.name, data_category |-> detected,
              disk |-> e.content,
              dialog |-> IF detected = NoneVal THEN DialogUndetected
                         ELSE DialogNone,
              reset |-> detected = NoneVal]

handle_upload(e) ==
    /\ \A q \in Runs : pc[q] = "idle"
    /\ LET u == UploadResult(e, file_path, data_category, disk)
       IN  /\ file_path' = u.file_path
           /\ data_category' = u.data_category
           /\ disk' = u.disk
           /\ last_dialog' = IF u.dialog = DialogNone THEN last_dialog
                             ELSE u.dialog
           /\ progress_bar' = IF u.reset THEN 0 ELSE progress_bar
           /\ status_label' = IF u.reset THEN LabelNoFile
                              ELSE LabelUploaded(e.name, u.data_category)
    /\ UNCHANGED <<db, unique_identifiers, pc, locals, call, ret>>

(***************************************************************************)
(* process_data (lines 111-167), one action per statement group.           *)
(***************************************************************************)
\* the names app.py binds at module level (lines 1-15, 17, 233)
ModuleGlobals ==
    {"os", "json", "pd", "ui", "parse", "generate_identifier", "is_duplicate",
     "detect_and_categorize", "prevent_duplicates", "load_json_data",
     "save_json_data", "JSON_DB_PATH", "DataProcessorApp", "app_instance"}

\* save_json_data(existing_data, JSON_DB_PATH), line 157 (utils; modelled
\* from the specification: the whole document replaces the one on disk)
save_json_data(existing_data) == existing_data

\* a plausible slip: the save placed before the identifier update
SaveThenUpdate(document, existing_data) ==
    IF "unique_identifiers" \notin ModuleGlobals
    THEN [raised |-> TRUE, dialog |-> DialogErrorName,
          document |-> save_json_data(existing_data)]
    ELSE [raised |-> FALSE, dialog |-> DialogSuccess,
          document |-> save_json_data(existing_data)]

\* lines 150-157: the global is looked up first (NameError when it is not
\* bound), then the document is saved
UpdateAndSave(document, existing_data) ==
    IF "unique_identifiers" \notin ModuleGlobals
    THEN [raised |-> TRUE, dialog |-> DialogErrorName, document |-> document]
    ELSE [raised |-> FALSE, dialog |-> DialogSuccess,
          document |-> save_json_data(existing_data)]

\* the except clause, lines 165-167, and the end of the task
Fail(r, dialog) ==
    /\ pc' = [pc EXCEPT ![r] = "idle"]
    /\ locals' = [locals EXCEPT ![r] = NoLocals]
    /\ last_dialog' = dialog
    /\ progress_bar' = 0

\* lines 112-120
ProcessStart(r) ==
    /\ pc[r] = "idle"
    /\ LoopFree(r)
    /\ IF file_path = NoneVal
       THEN /\ last_dialog' = DialogNoFile
            /\ UNCHANGED <<pc, progress_bar>>
       ELSE IF data_category = NoneVal
       THEN /\ last_dialog' = DialogNoCategory
            /\ UNCHANGED <<pc, progress_bar>>
       ELSE /\ pc' = [pc EXCEPT ![r] = "load"]
            /\ progress_bar' = 25
            /\ UNCHANGED last_dialog
    /\ UNCHANGED <<db, disk, file_path, data_category, unique_identifiers,
                   locals, status_label, call, ret>>

\* lines 124-137
LoadAndRead(r) ==
    /\ pc[r] = "load"
    /\ LoopFree(r)
    /\ IF disk.kind # "table"
       THEN Fail(r, DialogErrorRead)
       ELSE /\ locals' = [locals EXCEPT
                  ![r].existing_data = load_json_data(db),
                  ![r].csv_data = StandardizeRows(disk.rows)]
            /\ pc' = [pc EXCEPT ![r] = "categorize"]
            /\ UNCHANGED <<last_dialog, progress_bar>>
    /\ UNCHANGED <<db, disk, file_path, data_category, unique_identifiers,
                   status_label, call, ret>>

\* line 140
Categorize(r) ==
    /\ pc[r] = "categorize"
    /\ LoopFree(r)
    /\ LET c == detect_and_categorize(locals[r].csv_data, unique_identifiers)
       IN  /\ unique_identifiers' = c.identifiers
           /\ IF c.raised
              THEN Fail(r, DialogErrorKey)
              ELSE /\ locals' = [locals EXCEPT ![r].categorized_data = c.data]
                   /\ pc' = [pc EXCEPT ![r] = "filter"]
                   /\ UNCHANGED <<last_dialog, progress_bar>>
    /\ UNCHANGED <<db, disk, file_path, data_category, status_label, call, ret>>

\* a plausible slip: the merge of lines 144-147 left out after the filter
FilterSkipsMerge(r) ==
    /\ pc[r] = "filter"
    /\ LoopFree(r)
    /\ locals' = [locals EXCEPT
          ![r].final_data = prevent_duplicates(locals[r].categorized_data).data]
    /\ pc' = [pc EXCEPT ![r] = "update"]
    /\ UNCHANGED <<db, disk, file_path, data_category, unique_identifiers,
                   last_dialog, progress_bar, status_label, call, ret>>

\* line 141
Filter(r) ==
    /\ pc[r] = "filter"
    /\ LoopFree(r)
    /\ LET f == prevent_duplicates(locals[r].categorized_data)
       IN  IF f.raised
           THEN Fail(r, DialogErrorKey)
           ELSE /\ locals' = [locals EXCEPT ![r].final_data = f.data]
                /\ pc' = [pc EXCEPT ![r] = "merge"]
                /\ UNCHANGED <<last_dialog, progress_bar>>
    /\ UNCHANGED <<db, disk, file_path, data_category, unique_identifiers,
                   status_label, call, ret>>

\* lines 144-147
Merge(r) ==
    /\ pc[r] = "merge"
    /\ LoopFree(r)
    /\ locals' = [locals EXCEPT
          ![r].existing_data = MergeInto(locals[r].existing_data,
                                         locals[r].final_data)]
    /\ pc' = [pc EXCEPT ![r] = "update"]
    /\ UNCHANGED <<db, disk, file_path, data_category, unique_identifiers,
                   last_dialog, progress_bar, status_label, call, ret>>

\* lines 150-167
UpdateIdentifiers(r) ==
    /\ pc[r] = "update"
    /\ LoopFree(r)
    /\ LET u == UpdateAndSave(db, locals[r].existing_data)
       IN  /\ db' = u.document
           /\ IF u.raised
              THEN Fail(r, u.dialog)
              ELSE /\ pc' = [pc EXCEPT ![r] = "idle"]
                   /\ locals' = [locals EXCEPT ![r] = NoLocals]
                   /\ last_dialog' = u.dialog
                   /\ progress_bar' = 100
    /\ UNCHANGED <<disk, file_path, data_category, unique_identifiers,
                   status_label, call, ret>>

Next ==
    \/ \E e \in UploadEvents : handle_upload(e)
    \/ \E r \in Runs : ProcessStart(r)
    \/ \E r \in Runs : LoadAndRead(r)
    \/ \E r \in Runs : Categorize(r)
    \/ \E r \in Runs : Filter(r)
    \/ \E r \in Runs : Merge(r)
    \/ \E r \in Runs : UpdateIdentifiers(r)

Spec == Init /\ [][Next]_vars

(***************************************************************************)
(* The engine functions on their own: detect_data_category applied to      *)
(* every set of known column names, and assign_unique_identifiers called   *)
(* again and again on the table it returned, one loop iteration a step.    *)
(***************************************************************************)
InitIdle ==
    /\ db = EmptyStore
    /\ disk = NoFile
    /\ file_path = NoneVal
    /\ data_category = NoneVal
    /\ pc = [r \in Runs |-> "idle"]
    /\ locals = [r \in Runs |-> NoLocals]
    /\ last_dialog = DialogNone
    /\ progress_bar = 0
    /\ status_label = LabelNoFile

InitDetect ==
    /\ InitIdle
    /\ unique_identifiers = EmptyDict
    /\ call \in {[fn |-> "detect", columns |-> cs] : cs \in SUBSET AllColumns}
    /\ ret = NoRet

\* self.detect_data_category(df.columns)
DetectCall ==
    /\ call.fn = "detect"
    /\ ret' = [fn |-> "detect", category |-> detect_data_category(call.columns)]
    /\ UNCHANGED <<appVars, unique_identifiers, call>>

SpecDetect == InitDetect /\ [][DetectCall]_vars

SmsRows ==
    {("SMS Type" :> "in") @@ ("Time" :> "2024-01-01 10:00")
        @@ ("From/To" :> "+15550100") @@ ("Text" :> "hi")
        @@ ("Location" :> "x")}

CallsRows ==
    {("Call Type" :> "in") @@ ("Time" :> "2024-01-01 10:00")
        @@ ("From/To" :> "+15550100") @@ ("Duration" :> "60")
        @@ ("Location" :> "x")}

InstalledAppsRows ==
    {("Application Name" :> "chat") @@ ("Package Name" :> "com.chat")
        @@ ("Installed Date" :> "2024-01-01 10:00")}

\* the rows a batch of a category is made of, as process_data passes them on
RowsOf(category) ==
    {StandardizeRow(row) :
        row \in CASE category = "Messenger" -> MessengerRows
                  [] category = "SMS" -> SmsRows
                  [] category = "Calls" -> CallsRows
                  [] category = "Contacts" -> ContactsRows
                  [] category = "Keylog" -> KeylogRows
                  [] category = "Installed Apps" -> InstalledAppsRows
                  [] OTHER -> {}}

BatchCategories == CategoryNames

\* the batches of a category, and one whose rows are of another category
BatchesOf(category) ==
    SeqsUpTo(RowsOf(category), MaxBatch)
    \cup (IF category = "Contacts"
          THEN {<<[Application |-> "chat", Time |-> NoneVal, Text |-> "hi"]>>}
          ELSE {})

InitAssign ==
    /\ InitIdle
    /\ unique_identifiers = EmptyDict
    /\ call = NoCall
    /\ ret = NoRet

\* lines 174-176: entry of the call
AssignCall(category, batch) ==
    /\ call = NoCall
    /\ call' = [fn |-> "assign", category |-> category,
                processed_data |-> batch, i |-> 1,
                next_id |-> InitialNextId(unique_identifiers)]
    /\ ret' = NoRet
    /\ UNCHANGED <<appVars, unique_identifiers>>

\* lines 178-190: one iteration of the loop
AssignIter ==
    /\ call.fn = "assign"
    /\ call.i <= Len(call.processed_data)
    /\ LET r == AssignEntry(call.processed_data[call.i], call.category,
                            unique_identifiers, call.next_id)
       IN  /\ unique_identifiers' = r.identifiers
           /\ IF r.raised
              THEN /\ call' = NoCall
                   /\ ret' = [fn |-> "assign", raised |-> TRUE]
              ELSE /\ call' = [call EXCEPT
                          !.processed_data[call.i] = r.entry,
                          !.i = call.i + 1, !.next_id = r.next_id]
                   /\ UNCHANGED ret
    /\ UNCHANGED appVars

\* line 192
AssignReturn ==
    /\ call.fn = "assign"
    /\ call.i > Len(call.processed_data)
    /\ ret' = [fn |-> "assign", raised |-> FALSE, category |-> call.category,
               data |-> call.processed_data,
               identifiers |-> unique_identifiers]
    /\ call' = NoCall
    /\ UNCHANGED <<appVars, unique_identifiers>>

NextAssign ==
    \/ \E c \in BatchCategories : \E b \in BatchesOf(c) : AssignCall(c, b)
    \/ AssignIter
    \/ AssignReturn

SpecAssign == InitAssign /\ [][NextAssign]_vars

\* the same calls on a table that already holds an identifier near the end
\* of the three-digit range (existing_identifiers is what the caller
\* passes; of the many entries such a table has, the highest is kept)
InitAssignWide ==
    /\ InitIdle
    /\ unique_identifiers = SetItem(EmptyDict, "Zed", FormatId(998))
    /\ call = NoCall
    /\ ret = NoRet

SpecAssignWide == InitAssignWide /\ [][NextAssign]_vars

(***************************************************************************)
(* The two engine functions called once each on a batch that may hold      *)
(* records without one of their columns.                                   *)
(***************************************************************************)
\* a record without column k
Drop(row, k) == [f \in DOMAIN row \ {k} |-> row[f]]

\* the records of a category, whole or with one column missing
RowsWithGaps(category) ==
    RowsOf(category)
    \cup {Drop(row, k) : row \in RowsOf(category),
                         k \in required_columns(category)}

InitFilter ==
    /\ InitIdle
    /\ unique_identifiers = EmptyDict
    /\ call \in UNION {{[fn |-> f, category |-> c, processed_data |-> b] :
                            f \in {"filter", "assign_all"},
                            b \in SeqsUpTo(RowsWithGaps(c), MaxBatch)} :
                        c \in BatchCategories}
    /\ ret = NoRet

\* self.prevent_duplicate_entries(processed_data, category); an exception
\* leaves the caller without a result
FilterCall ==
    /\ call.fn = "filter"
    /\ ret = NoRet
    /\ LET f == prevent_duplicate_entries(call.processed_data, call.category)
       IN  ret' = IF f.raised THEN [fn |-> "filter", raised |-> TRUE]
                  ELSE [fn |-> "filter", raised |-> FALSE, data |-> f.data]
    /\ UNCHANGED <<appVars, unique_identifiers, call>>

\* self.assign_unique_identifiers(processed_data, category, None)
AssignAllCall ==
    /\ call.fn = "assign_all"
    /\ ret = NoRet
    /\ LET a == assign_unique_identifiers(call.processed_data, call.category,
                                          NoneDict)
       IN  ret' = IF a.raised THEN [fn |-> "assign_all", raised |-> TRUE]
                  ELSE [fn |-> "assign_all", raised |-> FALSE, data |-> a.data]
    /\ UNCHANGED <<appVars, unique_identifiers, call>>

NextFilter ==
    \/ FilterCall
    \/ AssignAllCall

SpecFilter == InitFilter /\ [][NextFilter]_vars

(***************************************************************************)
(* Properties.                                                             *)
(***************************************************************************)
\* the dedup-key tuples of a record list
KeysOfSeq(entries, category) ==
    {KeyOf(entries[j], category) : j \in 1..Len(entries)}

\* a stored record list holds no dedup-key tuple twice
NoDuplicateKeys(store) ==
    \A c \in DOMAIN store \cap CategoryNames :
        \A i, j \in 1..Len(store[c]) :
            i < j => KeyOf(store[c][i], c) # KeyOf(store[c][j], c)

\* a record without its identifier field
Strip(entry) == [k \in DOMAIN entry \ {"identifier"} |-> entry[k]]

RECURSIVE IsSubsequence(_, _)
\* a can be had from b by leaving entries out, order kept
IsSubsequence(a, b) ==
    IF a = <<>> THEN TRUE
    ELSE IF b = <<>> THEN FALSE
    ELSE IF a[1] = b[1] THEN IsSubsequence(Tail(a), Tail(b))
    ELSE IsSubsequence(a, Tail(b))

\* the runs that have merged their batch into the document they loaded
MergedRuns == {r \in Runs : pc[r] = "update"}

\* C1 (Dedup idempotence): when a run has merged a table whose every
\* dedup-key tuple was already in the persisted store (the store a first
\* ingestion of that table leaves), the run has appended no record: the
\* category's sequence in the run's document equals the persisted one.
C1_DedupIdempotence ==
    \A r \in MergedRuns : \A c \in DOMAIN locals[r].categorized_data :
        KeysOfSeq(locals[r].categorized_data[c], c)
                \subseteq KeysOfSeq(EntriesOf(db, c), c)
            => EntriesOf(locals[r].existing_data, c) = EntriesOf(db, c)

\* C2 (Store uniqueness): neither the document on disk nor the document a
\* run has merged into holds two records of one category with the same
\* dedup-key tuple.
C2_StoreUniqueness ==
    /\ NoDuplicateKeys(db)
    /\ \A r \in MergedRuns : NoDuplicateKeys(locals[r].existing_data)

C4_IdentifierInjective ==
    \A a, b \in DOMAIN unique_identifiers :
        a # b => unique_identifiers[a] # unique_identifiers[b]

C4_Witness ==
    /\ Cardinality(DOMAIN unique_identifiers) = 3
    /\ ret.fn = "assign"

\* C5 (Monotone minting): an identifier that a step adds to the table has
\* the suffix 1 when the table was empty, and otherwise one more than the
\* highest suffix in the table; so it exceeds every suffix minted before.
C5_MonotoneMinting ==
    [][\A k \in DOMAIN unique_identifiers' \ DOMAIN unique_identifiers :
          LET n == IdNumber(unique_identifiers'[k])
          IN  /\ \A q \in DOMAIN unique_identifiers :
                    IdNumber(unique_identifiers[q]) < n
              /\ IF DOMAIN unique_identifiers = {} THEN n = 1
                 ELSE \E q \in DOMAIN unique_identifiers :
                        IdNumber(unique_identifiers[q]) = n - 1
      ]_vars

\* three identifiers have been minted, the last with suffix 3
C5_Witness ==
    \E k \in DOMAIN unique_identifiers :
        /\ unique_identifiers[k] = FormatId(3)
        /\ call.fn = "assign"

\* the priority order of the categories as the specification lists it
ClaimedPriority ==
    <<"Messenger", "SMS", "Calls", "Keylog", "Contacts", "Installed Apps">>

\* C6 (Detection by fixed priority): detect returns the first category, in
\* the order Messenger, SMS, Calls, Keylog, Contacts, Installed Apps, whose
\* required columns are all among the column names, and None exactly when
\* there is no such category.
C6_DetectFirstMatch ==
    ret.fn = "detect" =>
        LET hits == {i \in 1..Len(ClaimedPriority) :
                        required_columns(ClaimedPriority[i]) \subseteq call.columns}
        IN  IF hits = {} THEN ret.category = NoneVal
            ELSE \E i \in hits :
                    /\ ret.category = ClaimedPriority[i]
                    /\ \A j \in hits : i <= j

\* columns that satisfy Messenger and Keylog at once, with an extra column
C6_Witness ==
    /\ ret.fn = "detect"
    /\ call.columns = {"Time", "Sender", "Text", "Application", "Location"}
    /\ ret.category = "Messenger"

\* the uploaded file is a readable table whose columns match no category
UnrecognizedInput ==
    /\ disk.kind = "table"
    /\ \A c \in CategoryNames : ~(required_columns(c) \subseteq disk.columns)

\* C7 (Unrecognized input merges nothing): while the uploaded table matches
\* no category, a processing run is refused with the category error, no
\* task leaves its idle position, and the document on disk and the
\* identifier table stay as they are.
C7_UnrecognizedMergesNothing ==
    [][UnrecognizedInput =>
          /\ \A r \in Runs : pc[r] = "idle" /\ pc'[r] = "idle"
          /\ db' = db
          /\ unique_identifiers' = unique_identifiers
          /\ locals' = locals
          /\ (\E r \in Runs : ProcessStart(r)) => last_dialog' = DialogNoCategory
      ]_vars

\* a run was asked for on an unrecognized table and refused
C7_Witness ==
    /\ UnrecognizedInput
    /\ last_dialog = DialogNoCategory

\* C8 (Atomic commit): the document on disk changes only in the step that
\* ends a run with success, and then to the whole document that run merged;
\* a run that ends with an error leaves it as it was.
C8_AtomicCommit ==
    [][db' # db =>
          \E r \in Runs :
              /\ pc[r] = "update"
              /\ pc'[r] = "idle"
              /\ last_dialog' = DialogSuccess
              /\ db' = locals[r].existing_data
      ]_vars

\* a run failed after it had merged its batch in memory
C8_Witness ==
    /\ last_dialog = DialogErrorName
    /\ progress_bar = 0
    /\ \A r \in Runs : pc[r] = "idle"

\* what a merged run added to category c of the document it loaded
AddedBy(r, c) ==
    SubSeq(locals[r].existing_data[c], Len(EntriesOf(db, c)) + 1,
           Len(locals[r].existing_data[c]))

\* C9 (Merge order preservation): the records a run merges into a category
\* come after all records the store held, which keep their places, and are
\* in the order in which the input table has them.
C9_MergeOrder ==
    \A r \in MergedRuns : \A c \in DOMAIN locals[r].final_data :
        LET before == EntriesOf(db, c)
            after == locals[r].existing_data[c]
        IN  /\ Len(after) >= Len(before)
            /\ SubSeq(after, 1, Len(before)) = before
            /\ IsSubsequence([j \in 1..Len(AddedBy(r, c)) |->
                                 Strip(AddedBy(r, c)[j])],
                             locals[r].csv_data)

\* a run added two records behind a stored one
C9_Witness ==
    \E r \in MergedRuns : \E c \in DOMAIN locals[r].final_data :
        /\ Len(EntriesOf(db, c)) >= 1
        /\ Len(AddedBy(r, c)) = 2
        /\ AddedBy(r, c)[1] # AddedBy(r, c)[2]

C11_SuccessfulRunsCommit ==
    [][\A r \in Runs :
          (pc[r] = "update" /\ pc'[r] = "idle") =>
              /\ last_dialog' = DialogSuccess
              /\ progress_bar' = 100
              /\ \A c \in DOMAIN locals[r].categorized_data :
                    KeysOfSeq(locals[r].categorized_data[c], c)
                        \subseteq KeysOfSeq(EntriesOf(db', c), c)
      ]_vars

\* the steps of a run, each with the one that follows it
StepPairs ==
    {<<"idle", "load">>, <<"load", "categorize">>, <<"categorize", "filter">>,
     <<"filter", "merge">>, <<"merge", "update">>}

\* C12 (Pipeline step order): a run moves only from one step to the next
\* (start, read, detect-and-assign, filter, merge, save) or ends; when it
\* comes to filter, nothing is filtered or merged yet; when it comes to
\* merge, the filtered records are records that carry the assignment's
\* output and nothing is merged yet; when it comes to the save, the
\* filtered records are the tail of the merged document; the document on
\* disk is written only from the step after the merge; and a run that has
\* ended keeps nothing of its work.
C12_StepOrder ==
    [][/\ \A r \in Runs : pc'[r] # pc[r] =>
            /\ <<pc[r], pc'[r]>> \in StepPairs \/ pc'[r] = "idle"
            /\ pc'[r] = "filter" =>
                  /\ locals'[r].final_data = EmptyDict
                  /\ locals'[r].existing_data = load_json_data(db)
            /\ pc'[r] = "merge" =>
                  /\ DOMAIN locals'[r].final_data
                        = DOMAIN locals[r].categorized_data
                  /\ \A c \in DOMAIN locals'[r].final_data :
                        IsSubsequence(locals'[r].final_data[c],
                                      locals[r].categorized_data[c])
                  /\ locals'[r].existing_data = load_json_data(db)
            /\ pc'[r] = "update" =>
                  \A c \in DOMAIN locals[r].final_data :
                      LET after == locals'[r].existing_data[c]
                          added == locals[r].final_data[c]
                      IN  /\ Len(after) = Len(EntriesOf(db, c)) + Len(added)
                          /\ SubSeq(after, Len(after) - Len(added) + 1,
                                    Len(after)) = added
            /\ pc'[r] = "idle" => locals'[r] = NoLocals
       /\ db' # db => \E r \in Runs : pc[r] = "update"
      ]_vars

\* a run has assigned, filtered a duplicate out, and merged behind a stored
\* record
C12_Witness ==
    \E r \in Runs : \E c \in DOMAIN locals[r].final_data :
        /\ pc[r] = "update"
        /\ Len(locals[r].categorized_data[c]) = 2
        /\ Len(locals[r].final_data[c]) = 1
        /\ Len(locals[r].existing_data[c]) = 2

RECURSIVE ClaimedFilterFrom(_, _, _, _)
\* the filter the claim describes: of the batch, from place i on, the
\* records whose dedup-key tuple is neither among the persisted records nor
\* earlier in the batch
ClaimedFilterFrom(batch, persisted, category, i) ==
    IF i > Len(batch) THEN <<>>
    ELSE LET key == KeyOf(batch[i], category)
             kept == /\ key \notin KeysOfSeq(persisted, category)
                     /\ \A j \in 1..(i - 1) : KeyOf(batch[j], category) # key
         IN  (IF kept THEN <<batch[i]>> ELSE <<>>)
                 \o ClaimedFilterFrom(batch, persisted, category, i + 1)

\* C13 (Filter keeps first occurrences): what the filter step of a run
\* hands to the merge is, per category, exactly the subsequence of the
\* categorized batch that holds, for each dedup-key tuple absent from the
\* persisted records, the earliest batch record with that tuple.
C13_FilterKeepsFirst ==
    \A r \in Runs : pc[r] \in {"merge", "update"} =>
        \A c \in DOMAIN locals[r].final_data :
            locals[r].final_data[c]
                = ClaimedFilterFrom(locals[r].categorized_data[c],
                                    EntriesOf(db, c), c, 1)

\* the categories the claim names as having no identity field
IdentifierLess == {"Keylog", "Installed Apps"}

\* C14 (Identifier-less categories pass through): while
\* assign_unique_identifiers works on a batch of category Keylog or
\* Installed Apps, no step changes a record of the batch or the identifier
\* table, no record gets an identifier field, and the call returns the
\* batch and the table as they were passed in.
C14_PassThrough ==
    [][(call.fn = "assign" /\ call.category \in IdentifierLess) =>
          /\ unique_identifiers' = unique_identifiers
          /\ call'.fn = "assign" => call'.processed_data = call.processed_data
          /\ ret'.fn = "assign" =>
                /\ ~ret'.raised
                /\ ret'.data = call.processed_data
                /\ ret'.identifiers = unique_identifiers
                /\ \A j \in 1..Len(ret'.data) :
                      "identifier" \notin DOMAIN ret'.data[j]
      ]_vars

\* a call on two Installed Apps records has returned while the table held
\* identifiers of earlier calls
C14_Witness ==
    /\ ret.fn = "assign"
    /\ ~ret.raised
    /\ ret.category = "Installed Apps"
    /\ Len(ret.data) = 2
    /\ unique_identifiers # EmptyDict

\* the columns the claim speaks of: the dedup-key columns of a category
\* and its identity column, if it has one
KeyColumns(category) ==
    {unique_fields(category)[j] : j \in 1..Len(unique_fields(category))}

IdentityColumns(category) ==
    IF sender_field(category) = NoneVal THEN {} ELSE {sender_field(category)}

\* some record of the batch lacks one of the given columns
LacksOneOf(batch, columns) ==
    \E j \in 1..Len(batch) : ~(columns \subseteq DOMAIN batch[j])

Spelled ==
    {[n |-> 998, digits |-> <<9, 9, 8>>], [n |-> 999, digits |-> <<9, 9, 9>>],
     [n |-> 1000, digits |-> <<1, 0, 0, 0>>],
     [n |-> 1001, digits |-> <<1, 0, 0, 1>>],
     [n |-> 1002, digits |-> <<1, 0, 0, 2>>]}

\* C17 (Identifier format widens past 999): on a table whose highest suffix
\* is near 999, a minted identifier is ID_ followed by all the digits of
\* the next number (ID_999, then ID_1000, ID_1001: no digit is cut), it
\* differs from every identifier in the table, and a call that starts reads
\* every suffix in the table, four-digit ones included, as its full number:
\* its next number is one more than the highest of them.
C17_FormatWidens ==
    [][/\ \A k \in DOMAIN unique_identifiers' \ DOMAIN unique_identifiers :
             /\ \E p \in Spelled :
                   /\ p.n = call.next_id
                   /\ unique_identifiers'[k]
                         = [prefix |-> "ID_", digits |-> p.digits]
             /\ \A q \in DOMAIN unique_identifiers :
                   unique_identifiers[q] # unique_identifiers'[k]
       /\ (call.fn = "none" /\ call'.fn = "assign") =>
             /\ \A q \in DOMAIN unique_identifiers : \A p \in Spelled :
                   unique_identifiers[q].digits = p.digits
                       => call'.next_id > p.n
             /\ \E q \in DOMAIN unique_identifiers : \E p \in Spelled :
                   /\ unique_identifiers[q].digits = p.digits
                   /\ call'.next_id = p.n + 1
      ]_vars

\* ID_1000 and ID_1001 are in the table, and a call has started whose next
\* number, read back from them, is 1002
C17_Witness ==
    /\ call.fn = "assign"
    /\ call.i = 1
    /\ call.next_id = 1002
    /\ \E q \in DOMAIN unique_identifiers :
          unique_identifiers[q] = [prefix |-> "ID_", digits |-> <<1, 0, 0, 0>>]
    /\ \E q \in DOMAIN unique_identifiers :
          unique_identifiers[q] = [prefix |-> "ID_", digits |-> <<1, 0, 0, 1>>]

\* C18 (Append-only store): in the document a run has merged into, every
\* entry of the document on disk is still there; a category the batch has
\* records for begins with its stored records, unchanged and in their
\* order; every other category, and the identifiers entry, is as stored.
C18_AppendOnly ==
    \A r \in MergedRuns : \A k \in DOMAIN db :
        LET after == locals[r].existing_data
        IN  /\ k \in DOMAIN after
            /\ IF k \in DOMAIN locals[r].final_data
               THEN /\ Len(after[k]) >= Len(db[k])
                    /\ \A j \in 1..Len(db[k]) : after[k][j] = db[k][j]
               ELSE after[k] = db[k]

\* a run has merged Contacts records into a document that held two
\* Messenger records
C18_Witness ==
    \E r \in MergedRuns :
        /\ "Contacts" \in DOMAIN locals[r].final_data
        /\ Len(locals[r].existing_data["Contacts"]) >= 1
        /\ Len(EntriesOf(db, "Messenger")) = 2
        /\ "identifiers" \in DOMAIN db

\* the categories whose records have an identity field
IdentityCategories == {"Messenger", "SMS", "Calls", "Contacts"}

\* every record of an identity category carries an identifier, and the
\* document's identifiers entry maps the record's identity value to it
AgreesWithTable(store) ==
    \A c \in IdentityCategories \cap DOMAIN store :
        \A j \in 1..Len(store[c]) :
            LET entry == store[c][j]
                sender == entry[sender_field(c)]
            IN  /\ "identifier" \in DOMAIN entry
                /\ sender \in DOMAIN IdentifiersOf(store)
                /\ IdentifiersOf(store)[sender] = entry["identifier"]

\* C19 (Records agree with identifier table): the document on disk, and
\* the document a run has merged into and is about to save, hold under
\* Messenger, SMS, Calls and Contacts only records that carry an
\* identifier, and the identifiers entry of the same document maps each
\* record's identity value to that identifier.
C19_RecordsAgreeWithTable ==
    /\ AgreesWithTable(db)
    /\ \A r \in MergedRuns : AgreesWithTable(locals[r].existing_data)

\* C20 (No processing of a stale upload): while the status label reads
\* "No file uploaded" (no upload yet, or the last upload was rejected and
\* the state reset, and none has succeeded since), no run has merged a
\* batch into the document it loaded.
C20_NoStaleProcessing ==
    status_label = LabelNoFile => MergedRuns = {}

=============================================================================
